---- MODULE Spec2Model ----
(***************************************************************************)
(* Structural comparison of two syntax trees (src/ast/compare.ts) with the *)
(* node description helper (src/ast/utils.ts), the command line program    *)
(* around it (src/index.ts, src/unnamed/part_002) and the line mapping    *)
(* and the side-by-side output of the diff display (src/diff/generate.ts). *)
(*                                                                         *)
(* Spec is one call of compareASTs on two parsed trees, FilterSpec one     *)
(* call of filterMoves on a list, MainSpec one run of main in file         *)
(* comparison mode, LinesSpec a series of calls of getLineNumber,          *)
(* RenderSpec one call of generateDiffs on two texts and a list.           *)
(*                                                                         *)
(* JavaScript values are tagged records: k names the runtime type.         *)
(* A string that the code builds with a template literal is kept as the    *)
(* sequence of its parts, in order.                                        *)
(***************************************************************************)
EXTENDS Integers, Sequences, FiniteSets, TLC

VARIABLES node1, node2, deviations, pc, accumulatedDeviations,
          argv, files, formatter, snippet1, snippet2, exitCode, generated,
          lineStartCache, code, charIndex, line,
          code1, code2, printed

\* the state of main (src/index.ts, src/unnamed/part_002)
mainVars == <<argv, files, formatter, snippet1, snippet2, exitCode, generated>>

\* the line start cache of src/diff/generate.ts and the last call of
\* getLineNumber: its arguments and what the two versions of it returned
lineVars == <<lineStartCache, code, charIndex, line>>

\* the two texts generateDiffs is given and the lines it has printed
renderVars == <<code1, code2, printed>>

vars == <<node1, node2, deviations, pc, accumulatedDeviations, mainVars, lineVars,
          renderVars>>

(***************************************************************************)
(* JavaScript values                                                       *)
(***************************************************************************)
Null == [k |-> "null"]

Undefined == [k |-> "undefined"]

Str(s) == [k |-> "string", s |-> s]

Bool(b) == [k |-> "boolean", b |-> b]

Num(n) == [k |-> "number", n |-> n]

\* an array; arrays reach a strict comparison only against a non-array
Arr(items) == [k |-> "array", items |-> items]

\* a plain object that is not a node; ref is its identity (its address)
Obj(props) == [k |-> "object", ref |-> <<"", 0>>, props |-> props]

\* a syntax node: type, start and end are always present, fields are the
\* other own properties in Object.keys order
Node(type, fields) ==
    [k |-> "node", type |-> type, start |-> 0, end |-> 0, fields |-> fields]

F(key, val) == [key |-> key, val |-> val]

\* obj[key] for an own property other than type, start and end
Get(obj, key) ==
    IF \E i \in DOMAIN obj.fields : obj.fields[i].key = key
    THEN obj.fields[CHOOSE i \in DOMAIN obj.fields : obj.fields[i].key = key].val
    ELSE Undefined

\* Object.keys(node)
ObjectKeys(node) ==
    <<"type", "start", "end">> \o [i \in DOMAIN node.fields |-> node.fields[i].key]

Digit(d) == <<"0", "1", "2", "3", "4", "5", "6", "7", "8", "9">>[d + 1]

RECURSIVE NumberToString(_)
\* String(n) for a natural number, as its digits
NumberToString(n) ==
    IF n < 10 THEN <<Digit(n)>> ELSE NumberToString(n \div 10) \o <<Digit(n % 10)>>

RECURSIVE ToStringParts(_)
RECURSIVE JoinParts(_)
\* Array.prototype.join(): null and undefined entries give the empty string
JoinParts(items) ==
    IF items = <<>> THEN <<>>
    ELSE LET h == Head(items)
             hp == IF h.k \in {"null", "undefined"} THEN <<>> ELSE ToStringParts(h)
         IN  IF Len(items) = 1 THEN hp ELSE hp \o <<",">> \o JoinParts(Tail(items))

\* `${v}`: the string conversion a template literal applies
ToStringParts(v) ==
    CASE v.k = "string" -> <<v.s>>
      [] v.k = "boolean" -> IF v.b THEN <<"true">> ELSE <<"false">>
      [] v.k = "number" -> NumberToString(v.n)
      [] v.k = "null" -> <<"null">>
      [] v.k = "undefined" -> <<"undefined">>
      [] v.k = "array" -> JoinParts(v.items)
      [] OTHER -> <<"[object Object]">>

RECURSIVE JSONstringify(_)
RECURSIVE JSONitems(_)
RECURSIVE JSONprops(_, _)
\* the entries of an array: undefined is written as null
JSONitems(items) ==
    IF items = <<>> THEN <<>>
    ELSE LET h == Head(items)
             hp == IF h.k = "undefined" THEN <<"null">> ELSE JSONstringify(h)
         IN  IF Len(items) = 1 THEN hp ELSE hp \o <<",">> \o JSONitems(Tail(items))

\* the properties of an object: an undefined property is left out
JSONprops(props, first) ==
    IF props = <<>> THEN <<>>
    ELSE LET h == Head(props)
         IN  IF h.val.k = "undefined" THEN JSONprops(Tail(props), first)
             ELSE (IF first THEN <<>> ELSE <<",">>)
                  \o <<"\"", h.key, "\":">> \o JSONstringify(h.val)
                  \o JSONprops(Tail(props), FALSE)

JSONstringify(v) ==
    CASE v.k = "string" -> <<"\"", v.s, "\"">>
      [] v.k = "boolean" -> IF v.b THEN <<"true">> ELSE <<"false">>
      [] v.k = "number" -> NumberToString(v.n)
      [] v.k = "null" -> <<"null">>
      [] v.k = "array" -> <<"[">> \o JSONitems(v.items) \o <<"]">>
      [] v.k = "object" -> <<"{">> \o JSONprops(v.props, TRUE) \o <<"}">>
      [] v.k = "node" ->
            <<"{">> \o JSONprops(<<F("type", Str(v.type)), F("start", Num(v.start)),
                                   F("end", Num(v.end))>> \o v.fields, TRUE) \o <<"}">>
      [] OTHER -> <<>>

\* v1 !== v2: primitives by type and value, objects and arrays by identity
StrictNotEqual(v1, v2) ==
    IF v1.k # v2.k THEN TRUE
    ELSE CASE v1.k = "string" -> v1.s # v2.s
           [] v1.k = "boolean" -> v1.b # v2.b
           [] v1.k = "number" -> v1.n # v2.n
           [] v1.k = "object" -> v1.ref # v2.ref
           [] OTHER -> FALSE

(***************************************************************************)
(* src/ast/utils.ts                                                        *)
(***************************************************************************)
FunctionTypes == {"FunctionDeclaration", "FunctionExpression", "ArrowFunctionExpression"}

getNodeDescription(node) ==
    CASE node.type = "Identifier" -> <<"Identifier: ">> \o ToStringParts(Get(node, "name"))
      [] node.type = "Literal" -> <<"Literal: ">> \o ToStringParts(Get(node, "raw"))
      [] node.type \in FunctionTypes ->
            LET id == Get(node, "id")
            IN  IF id.k = "node"
                THEN <<node.type, " ">> \o ToStringParts(Get(id, "name"))
                ELSE <<node.type>>
      [] node.type = "VariableDeclarator" ->
            LET id == Get(node, "id")
            IN  IF id.type = "Identifier"
                THEN <<"Variable: ">> \o ToStringParts(Get(id, "name"))
                ELSE <<"Variable: ", "[complex pattern]">>
      [] node.type = "CallExpression" ->
            LET callee == Get(node, "callee")
            IN  IF callee.type = "Identifier"
                THEN <<"Call: ">> \o ToStringParts(Get(callee, "name")) \o <<"()">>
                ELSE IF callee.type = "MemberExpression"
                THEN <<"Call: ", "[member access]", "()">>
                ELSE <<"Call: ", "[complex callee]", "()">>
      [] OTHER -> <<node.type>>

(***************************************************************************)
(* src/ast/compare.ts                                                      *)
(***************************************************************************)
\* as Deviation, with the node's length in place of its end offset
DeviationWithLength(type, node, description) ==
    [type |-> type, start |-> node.start, end |-> node.end - node.start,
     nodeType |-> node.type, description |-> description]

Deviation(type, node, description) ==
    [type |-> type, start |-> node.start, end |-> node.end,
     nodeType |-> node.type, description |-> description]

\* as MoveKey, without the description
MoveKeyOfTypeOnly(d) == <<d.nodeType, "::">>

\* the key filterMoves matches on: `${nodeType}::${description || ''}`
MoveKey(d) == <<d.nodeType, "::">> \o d.description

RECURSIVE MatchRemovals(_, _, _, _)
\* the loop over the removals: each takes the first addition of its key that
\* no earlier removal took; the result is the kept removals and the indices
\* of the matched additions
MatchRemovals(removals, additions, matched, kept) ==
    IF removals = <<>> THEN [kept |-> kept, matched |-> matched]
    ELSE LET removal == Head(removals)
             potentialMatches ==
                 {j \in DOMAIN additions :
                     j \notin matched /\ MoveKey(additions[j]) = MoveKey(removal)}
         IN  IF potentialMatches # {}
             THEN LET matchIndex ==
                          CHOOSE j \in potentialMatches :
                              \A j2 \in potentialMatches : j <= j2
                  IN  MatchRemovals(Tail(removals), additions,
                                    matched \cup {matchIndex}, kept)
             ELSE MatchRemovals(Tail(removals), additions, matched,
                                Append(kept, removal))

RECURSIVE Unmatched(_, _, _)
\* the additions whose index was not matched, in order
Unmatched(additions, matched, i) ==
    IF i > Len(additions) THEN <<>>
    ELSE (IF i \in matched THEN <<>> ELSE <<additions[i]>>)
         \o Unmatched(additions, matched, i + 1)

\* as filterMoves, with the additions that stay before the removals that do
filterMovesAdditionsFirst(devs) ==
    LET IsRemoval(d) == d.type = "removal"
        IsAddition(d) == d.type = "addition"
        removals == SelectSeq(devs, IsRemoval)
        additions == SelectSeq(devs, IsAddition)
        m == MatchRemovals(removals, additions, {}, <<>>)
    IN  Unmatched(additions, m.matched, 1) \o m.kept

\* as filterMoves, had every difference been kept
filterMovesKeepingAll(devs) == devs

\* as filterMoves, with the items that stay left where the input has them
filterMovesInPlace(devs) ==
    LET IsRemoval(d) == d.type = "removal"
        IsAddition(d) == d.type = "addition"
        removals == SelectSeq(devs, IsRemoval)
        additions == SelectSeq(devs, IsAddition)
        m == MatchRemovals(removals, additions, {}, <<>>)
        left == m.kept \o Unmatched(additions, m.matched, 1)
        stays == {left[i] : i \in DOMAIN left}
        Stays(d) == d \in stays
    IN  SelectSeq(devs, Stays)

filterMoves(devs) ==
    LET IsRemoval(d) == d.type = "removal"
        IsAddition(d) == d.type = "addition"
        removals == SelectSeq(devs, IsRemoval)
        additions == SelectSeq(devs, IsAddition)
    IN  IF removals = <<>> \/ additions = <<>> THEN devs
        ELSE LET m == MatchRemovals(removals, additions, {}, <<>>)
             IN  m.kept \o Unmatched(additions, m.matched, 1)

\* as AdditionOnly, with the type of a removal
AdditionOnlyAsRemoval(n2) == <<Deviation("removal", n2, getNodeDescription(n2))>>

AdditionOnly(n2) == <<Deviation("addition", n2, getNodeDescription(n2))>>

RemovalOnly(n1) == <<Deviation("removal", n1, getNodeDescription(n1))>>

\* as TypeMismatch, with the offsets of the first node on both differences
TypeMismatchSameOffsets(n1, n2) ==
    <<Deviation("removal", n1, getNodeDescription(n1)),
      [Deviation("addition", n2, getNodeDescription(n2))
          EXCEPT !.start = n1.start, !.end = n1.end]>>

TypeMismatch(n1, n2) ==
    <<Deviation("removal", n1, getNodeDescription(n1)),
      Deviation("addition", n2, getNodeDescription(n2))>>

LiteralRule(n1, n2) ==
    LET lit1 == Get(n1, "value")
        lit2 == Get(n2, "value")
        isString1 == lit1.k = "string"
        isString2 == lit2.k = "string"
    IN  IF isString1 # isString2 \/ (isString1 /\ lit1.s # lit2.s)
        THEN <<Deviation("removal", n1, <<"Literal: ">> \o ToStringParts(Get(n1, "raw"))),
               Deviation("addition", n2, <<"Literal: ">> \o ToStringParts(Get(n2, "raw")))>>
        ELSE <<>>

keysToIgnore ==
    {"type", "start", "end", "loc", "range", "raw", "comments",
     "leadingComments", "trailingComments", "innerComments", "extra"}

RelevantKeys(node) ==
    LET Kept(key) == key \notin keysToIgnore
    IN  SelectSeq(ObjectKeys(node), Kept)

Range(s) == {s[i] : i \in DOMAIN s}

\* as KeysChanged, comparing the two key lists in order
KeysChangedInOrder(keys1, keys2) == keys1 # keys2

\* keys1.length !== keys2.length || !keys1.every(in keySet2) || !keys2.every(in keySet1)
KeysChanged(keys1, keys2) ==
    \/ Len(keys1) # Len(keys2)
    \/ \E i \in DOMAIN keys1 : keys1[i] \notin Range(keys2)
    \/ \E i \in DOMAIN keys2 : keys2[i] \notin Range(keys1)

KeysChangedPair(n1, n2, keys1, keys2) ==
    <<Deviation("removal", n1, <<"Keys changed: ">> \o JoinParts([i \in DOMAIN keys1 |-> Str(keys1[i])])),
      Deviation("addition", n2, <<"Keys changed: ">> \o JoinParts([i \in DOMAIN keys2 |-> Str(keys2[i])]))>>

isNode(v) == v.k = "node"

isArray(v) == v.k = "array"

isNodeArray(v) ==
    isArray(v) /\ \A i \in DOMAIN v.items : v.items[i] = Null \/ isNode(v.items[i])

\* val1.length !== val2.length || JSON.stringify(val1) !== JSON.stringify(val2)
NonNodeArrayChanged(val1, val2) ==
    Len(val1.items) # Len(val2.items) \/ JSONstringify(val1) # JSONstringify(val2)

NonNodeArrayPair(n1, n2, key) ==
    <<Deviation("removal", n1, <<"Non-node array changed in key '", key, "'">>),
      Deviation("addition", n2, <<"Non-node array changed in key '", key, "'">>)>>

PropertyChangedPair(n1, n2, key, val1, val2) ==
    <<Deviation("removal", n1,
                <<"Property '", key, "' changed from '">> \o ToStringParts(val1) \o <<"'">>),
      Deviation("addition", n2,
                <<"Property '", key, "' changed to '">> \o ToStringParts(val2) \o <<"'">>)>>

RECURSIVE compareASTs(_, _)
RECURSIVE CompareElements(_, _, _)
RECURSIVE CompareKeys(_, _, _, _)
RECURSIVE CompareElementsOfShorter(_, _, _)

\* as CompareElements, over the indices both lists have
CompareElementsOfShorter(items1, items2, i) ==
    LET minLength == IF Len(items1) <= Len(items2) THEN Len(items1) ELSE Len(items2)
    IN  IF i > minLength THEN <<>>
        ELSE (IF items1[i] # Null \/ items2[i] # Null
              THEN compareASTs(items1[i], items2[i]) ELSE <<>>)
             \o CompareElementsOfShorter(items1, items2, i + 1)

\* the loop over the indices of two node arrays, from index i (1-based)
CompareElements(items1, items2, i) ==
    LET maxLength == IF Len(items1) >= Len(items2) THEN Len(items1) ELSE Len(items2)
    IN  IF i > maxLength THEN <<>>
        ELSE LET child1 == IF i <= Len(items1) THEN items1[i] ELSE Null
                 child2 == IF i <= Len(items2) THEN items2[i] ELSE Null
             IN  (IF child1 # Null \/ child2 # Null
                  THEN compareASTs(child1, child2) ELSE <<>>)
                 \o CompareElements(items1, items2, i + 1)

\* the loop over keys1, from the keys still to visit, with the deviations
\* accumulated so far
CompareKeys(n1, n2, keys, accumulated) ==
    IF keys = <<>> THEN filterMoves(accumulated)
    ELSE LET key == Head(keys)
             val1 == Get(n1, key)
             val2 == Get(n2, key)
         IN  IF isNode(val1) \/ isNode(val2)
             THEN CompareKeys(n1, n2, Tail(keys),
                      accumulated \o compareASTs(IF isNode(val1) THEN val1 ELSE Null,
                                                 IF isNode(val2) THEN val2 ELSE Null))
             ELSE IF isNodeArray(val1) /\ isNodeArray(val2)
             THEN CompareKeys(n1, n2, Tail(keys),
                      accumulated \o CompareElements(val1.items, val2.items, 1))
             ELSE IF isArray(val1) /\ isArray(val2)
             THEN IF NonNodeArrayChanged(val1, val2)
                  THEN filterMoves(accumulated \o NonNodeArrayPair(n1, n2, key))
                  ELSE CompareKeys(n1, n2, Tail(keys), accumulated)
             ELSE IF StrictNotEqual(val1, val2)
             THEN filterMoves(accumulated \o PropertyChangedPair(n1, n2, key, val1, val2))
             ELSE CompareKeys(n1, n2, Tail(keys), accumulated)

compareASTs(n1, n2) ==
    IF n1 = Null /\ n2 # Null THEN AdditionOnly(n2)
    ELSE IF n1 # Null /\ n2 = Null THEN RemovalOnly(n1)
    ELSE IF n1 = Null /\ n2 = Null THEN <<>>
    ELSE IF n1.type # n2.type THEN TypeMismatch(n1, n2)
    ELSE IF n1.type = "Identifier" THEN <<>>
    ELSE IF n1.type = "Literal" THEN LiteralRule(n1, n2)
    ELSE LET keys1 == RelevantKeys(n1)
             keys2 == RelevantKeys(n2)
         IN  IF KeysChanged(keys1, keys2)
             THEN KeysChangedPair(n1, n2, keys1, keys2)
             ELSE CompareKeys(n1, n2, keys1, <<>>)

(***************************************************************************)
(* The trees compared.  The parser (generateAST) gives every node its      *)
(* start and end offsets and builds every object afresh: Locate numbers    *)
(* the nodes of a shape in source order from an offset, adds the loc and    *)
(* range of every node, and gives every plain object an identity of its    *)
(* own in the heap of its tree.                                            *)
(***************************************************************************)
RECURSIVE Size(_)
RECURSIVE SizeAll(_)
SizeAll(vals) == IF vals = <<>> THEN 0 ELSE Size(Head(vals)) + SizeAll(Tail(vals))

\* the number of offsets a value takes
Size(v) ==
    CASE v.k = "node" -> 1 + SizeAll([i \in DOMAIN v.fields |-> v.fields[i].val])
      [] v.k = "array" -> SizeAll(v.items)
      [] v.k = "object" -> 1
      [] OTHER -> 0

RECURSIVE Locate(_, _, _)
RECURSIVE LocateFields(_, _, _)
RECURSIVE LocateItems(_, _, _)
LocateFields(fields, heap, off) ==
    IF fields = <<>> THEN <<>>
    ELSE <<F(Head(fields).key, Locate(Head(fields).val, heap, off))>>
         \o LocateFields(Tail(fields), heap, off + Size(Head(fields).val))

LocateItems(items, heap, off) ==
    IF items = <<>> THEN <<>>
    ELSE <<Locate(Head(items), heap, off)>>
         \o LocateItems(Tail(items), heap, off + Size(Head(items)))

\* node.loc: generateAST parses with locations: true (all on line 1)
SourceLocation(heap, start, end) ==
    [k |-> "object", ref |-> <<heap, start, "loc">>,
     props |-> <<F("start", [k |-> "object", ref |-> <<heap, start, "loc.start">>,
                             props |-> <<F("line", Num(1)), F("column", Num(start))>>]),
                 F("end", [k |-> "object", ref |-> <<heap, start, "loc.end">>,
                           props |-> <<F("line", Num(1)), F("column", Num(end))>>])>>]

Locate(v, heap, off) ==
    CASE v.k = "node" ->
            [v EXCEPT !.start = off, !.end = off + Size(v),
                      !.fields = <<F("loc", SourceLocation(heap, off, off + Size(v))),
                                   F("range", Arr(<<Num(off), Num(off + Size(v))>>))>>
                                 \o LocateFields(v.fields, heap, off + 1)]
      [] v.k = "array" -> [v EXCEPT !.items = LocateItems(v.items, heap, off)]
      [] v.k = "object" -> [v EXCEPT !.ref = <<heap, off>>]
      [] OTHER -> v

\* the longest child list of a generated Program
MaxList == 2

Identifier(name) == Node("Identifier", <<F("name", Str(name))>>)

Literal(value, raw) == Node("Literal", <<F("value", value), F("raw", Str(raw))>>)

TemplateElement(text) ==
    Node("TemplateElement",
         <<F("value", Obj(<<F("raw", Str(text)), F("cooked", Str(text))>>)),
           F("tail", Bool(TRUE))>>)

TemplateLiteral(text) ==
    Node("TemplateLiteral",
         <<F("expressions", Arr(<<>>)), F("quasis", Arr(<<TemplateElement(text)>>))>>)

BinaryExpression(left, operator, right) ==
    Node("BinaryExpression",
         <<F("left", left), F("operator", Str(operator)), F("right", right)>>)

MemberExpression(object, property, computed, optional) ==
    Node("MemberExpression",
         <<F("object", object), F("property", property),
           F("computed", Bool(computed)), F("optional", Bool(optional))>>)

\* elements holds null where the array literal has a hole
ArrayExpression(elements) ==
    Node("ArrayExpression", <<F("elements", Arr(elements))>>)

UnaryExpression(operator, prefix, argument) ==
    Node("UnaryExpression",
         <<F("operator", Str(operator)), F("prefix", Bool(prefix)),
           F("argument", argument)>>)

CallExpression(callee, arguments) ==
    Node("CallExpression",
         <<F("callee", callee), F("arguments", Arr(arguments)),
           F("optional", Bool(FALSE))>>)

\* a parser-defined kind that carries a sequence of primitive values
Pragma(tokens, argument) ==
    Node("Pragma", <<F("tokens", Arr(tokens)), F("argument", argument)>>)

ExpressionStatement(expression) ==
    Node("ExpressionStatement", <<F("expression", expression)>>)

\* a directive prologue entry: the parser adds the field directive
Directive(expression, directive) ==
    Node("ExpressionStatement",
         <<F("expression", expression), F("directive", Str(directive))>>)

\* the same two fields, set in the other order
DirectiveFirst(expression, directive) ==
    Node("ExpressionStatement",
         <<F("directive", Str(directive)), F("expression", expression)>>)

\* a statement that carries the metadata bag extra
WithExtra(expression) ==
    Node("ExpressionStatement",
         <<F("extra", Obj(<<F("parenthesized", Bool(TRUE))>>)),
           F("expression", expression)>>)

VariableDeclarator(id, init) ==
    Node("VariableDeclarator", <<F("id", id), F("init", init)>>)

VariableDeclaration(declarations, kind) ==
    Node("VariableDeclaration",
         <<F("declarations", Arr(declarations)), F("kind", Str(kind))>>)

BlockStatement(body) == Node("BlockStatement", <<F("body", Arr(body))>>)

FunctionDeclaration(id, params, body) ==
    Node("FunctionDeclaration",
         <<F("id", id), F("expression", Bool(FALSE)), F("generator", Bool(FALSE)),
           F("async", Bool(FALSE)), F("params", Arr(params)), F("body", body)>>)

Program(body) ==
    Node("Program", <<F("body", Arr(body)), F("sourceType", Str("script"))>>)

IdA == Identifier("a")

IdB == Identifier("b")

StrA == Literal(Str("a"), "\"a\"")

StrB == Literal(Str("b"), "\"b\"")

Str5 == Literal(Str("5"), "\"5\"")

Num5 == Literal(Num(5), "5")

Num6 == Literal(Num(6), "6")

Leaves == {IdA, IdB, StrA, StrB, Str5, Num5, Num6, TemplateLiteral("t")}

Expressions ==
    Leaves
    \cup {BinaryExpression(l, op, r) :
             l \in {IdA, IdB, TemplateLiteral("t")}, op \in {"+", "-"},
             r \in {IdB, StrA, StrB, Num5, Num6}}
    \cup {MemberExpression(o, IdB, c, p) :
             o \in {IdA, TemplateLiteral("t")}, c \in BOOLEAN, p \in BOOLEAN}
    \cup {UnaryExpression(op, p, StrA) : op \in {"-", "!"}, p \in BOOLEAN}
    \cup {CallExpression(c, as) :
             c \in {IdA, IdB},
             as \in {<<>>, <<StrA>>, <<Num5, StrB>>, <<TemplateLiteral("t")>>}}
    \cup {ArrayExpression(es) :
             es \in {<<>>, <<StrA>>, <<Null, StrA>>, <<StrA, Null>>, <<Null, Null>>,
                     <<IdA, Null, StrB>>, <<IdA, StrA>>, <<StrA, IdA>>}}
    \cup {Pragma(ts, IdA) :
             ts \in {<<>>, <<Str("x")>>, <<Str("y")>>, <<Num(1)>>, <<Str("1")>>,
                     <<Null>>, <<Undefined>>, <<Str("x"), IdA>>}}

Statements ==
    {ExpressionStatement(e) :
        e \in {StrA, StrB, Num5, IdA, TemplateLiteral("t"),
               BinaryExpression(IdA, "+", IdB), BinaryExpression(IdA, "-", StrA),
               CallExpression(IdA, <<StrA>>)}}
    \cup {Directive(StrA, "a"), Directive(StrB, "b"), DirectiveFirst(StrA, "a"),
          DirectiveFirst(StrB, "a"), WithExtra(StrA), WithExtra(StrB)}
    \cup {VariableDeclaration(<<VariableDeclarator(id, init)>>, kind) :
             id \in {IdA, IdB}, init \in {StrA, StrB, Num5, Null},
             kind \in {"var", "let"}}
    \cup {FunctionDeclaration(id, <<IdA, IdB>>, BlockStatement(<<s>>)) :
             id \in {IdA, IdB},
             s \in {ExpressionStatement(BinaryExpression(IdA, "+", IdB)),
                    ExpressionStatement(BinaryExpression(IdA, "-", IdB)),
                    ExpressionStatement(StrA)}}

\* the statements the generated Programs are made of
ProgramStatements ==
    {ExpressionStatement(StrA), ExpressionStatement(StrB),
     ExpressionStatement(BinaryExpression(IdA, "+", IdB)),
     ExpressionStatement(BinaryExpression(IdA, "-", IdB)),
     VariableDeclaration(<<VariableDeclarator(IdA, Num5)>>, "let"),
     Directive(StrA, "a")}

SeqsUpTo(S, n) == UNION {[1..m -> S] : m \in 0..n}

Programs == {Program(body) : body \in SeqsUpTo(ProgramStatements, MaxList)}

TreeA(shape) == Locate(shape, "A", 0)

\* the second tree comes from another text: its offsets are shifted by one
TreeB(shape) == Locate(shape, "B", 1)

\* the pairs of inputs made of the shapes of one set: any two of them parsed
\* from two texts, one shape parsed twice from the same text, one tree passed
\* twice, and a tree against null
PairsOf(Shapes) ==
    LET treesA == {TreeA(s) : s \in Shapes}
        treesB == {TreeB(s) : s \in Shapes}
    IN  (treesA \X treesB)
        \cup {<<TreeA(s), Locate(s, "B", 0)>> : s \in Shapes}
        \cup {<<a, a>> : a \in treesA}
        \cup (treesA \X {Null})
        \cup ({Null} \X treesB)

InputPairs ==
    PairsOf(Expressions) \cup PairsOf(Statements) \cup PairsOf(Programs)
    \cup {<<Null, Null>>}

(***************************************************************************)
(* One comparison: the caller has two trees and calls compareASTs.         *)
(***************************************************************************)
\* no run of main is under way
NoMain ==
    /\ argv = [d |-> FALSE, t |-> FALSE]
    /\ files = <<>>
    /\ formatter = "none"
    /\ snippet1 = Undefined /\ snippet2 = Undefined
    /\ exitCode = Undefined
    /\ generated = <<>>

\* generateDiffs has not been called
NoRender ==
    /\ code1 = <<>> /\ code2 = <<>>
    /\ printed = <<>>

\* getLineNumber has not been called
NoLines ==
    /\ lineStartCache = {}
    /\ code = <<>>
    /\ charIndex = 0
    /\ line = Undefined

Init ==
    /\ \E pair \in InputPairs : node1 = pair[1] /\ node2 = pair[2]
    /\ deviations = <<>>
    /\ pc = "parsed"
    /\ accumulatedDeviations = <<>>
    /\ NoMain
    /\ NoLines
    /\ NoRender

\* as ArgumentAfterCompare, had the ignored keys been deleted from the node
\* instead of filtered out of the list of its keys
ArgumentWithoutIgnoredKeys(node) ==
    IF node = Null THEN node
    ELSE LET Kept(field) == field.key \notin keysToIgnore
         IN  [node EXCEPT !.fields = SelectSeq(node.fields, Kept)]

\* a tree after compareASTs has run on it: the code reads properties of the
\* nodes, builds its key lists with Object.keys().filter() and assigns to no
\* property of a node
ArgumentAfterCompare(node) == node

\* the list after filterMoves has run on it: filter() builds the two partial
\* lists, shift() takes from the index lists of additionMap, and the items
\* that stay are pushed on a new list
ListAfterFilter(devs) == devs

Compare ==
    /\ pc = "parsed"
    /\ deviations' = compareASTs(node1, node2)
    /\ pc' = "compared"
    /\ node1' = ArgumentAfterCompare(node1)
    /\ node2' = ArgumentAfterCompare(node2)
    /\ UNCHANGED <<accumulatedDeviations, mainVars, lineVars, renderVars>>

Next == Compare

Spec == Init /\ [][Next]_vars

(***************************************************************************)
(* What two trees differ in, read off the trees alone: the set of changes  *)
(* between two values at the same position.  Offsets and object identity   *)
(* are not content.                                                        *)
(***************************************************************************)
Primitive(v) == v.k \in {"string", "boolean", "number", "null", "undefined"}

Other == [c |-> "other"]

\* the fields of a node that are content, not its position
Content(n) ==
    LET IsContent(f) == f.key \notin {"loc", "range"}
    IN  SelectSeq(n.fields, IsContent)

ContentKeys(n) == [i \in DOMAIN Content(n) |-> Content(n)[i].key]

RECURSIVE Changes(_, _)
FieldChanges(a, b, i) ==
    LET va == Content(a)[i].val
        vb == Content(b)[i].val
    IN  IF Primitive(va) /\ Primitive(vb)
        THEN IF va = vb THEN {}
             ELSE {[c |-> "scalar", at |-> a.start, key |-> Content(a)[i].key]}
        ELSE Changes(va, vb)

Changes(a, b) ==
    IF a.k # b.k THEN {Other}
    ELSE CASE a.k = "node" ->
                IF a.type # b.type THEN {Other}
                ELSE IF ContentKeys(a) # ContentKeys(b) THEN {Other}
                ELSE IF a.type = "Identifier"
                THEN IF Content(a) = Content(b) THEN {}
                     ELSE {[c |-> "name", at |-> a.start]}
                ELSE IF a.type = "Literal"
                THEN IF Content(a) = Content(b) THEN {}
                     ELSE {[c |-> "literal", a |-> a, b |-> b]}
                ELSE UNION {FieldChanges(a, b, i) : i \in DOMAIN Content(a)}
           [] a.k = "array" ->
                IF Len(a.items) # Len(b.items) THEN {Other}
                ELSE UNION {Changes(a.items[i], b.items[i]) : i \in DOMAIN a.items}
           [] a.k = "object" -> IF a.props = b.props THEN {} ELSE {Other}
           [] OTHER -> IF a = b THEN {} ELSE {Other}

RECURSIVE HasPlainObject(_)
\* some content field below v holds an object that is not a node
HasPlainObject(v) ==
    CASE v.k = "node" -> \E i \in DOMAIN Content(v) : HasPlainObject(Content(v)[i].val)
      [] v.k = "array" -> \E i \in DOMAIN v.items : HasPlainObject(v.items[i])
      [] v.k = "object" -> TRUE
      [] OTHER -> FALSE

Compared == pc = "compared"

BothNodes == node1 # Null /\ node2 # Null

\* the difference the code reports for node n with the description desc
Reported(type, n, desc) ==
    [type |-> type, start |-> n.start, end |-> n.end, nodeType |-> n.type,
     description |-> desc]

IsStringLiteralChange(ch) ==
    /\ ch.c = "literal"
    /\ Get(ch.a, "value").k = "string" \/ Get(ch.b, "value").k = "string"

IsOtherLiteralChange(ch) ==
    /\ ch.c = "literal"
    /\ Get(ch.a, "value").k # "string" /\ Get(ch.b, "value").k # "string"

(***************************************************************************)
(* C1  Reflexivity: a tree compared with itself, or with a separately      *)
(* built duplicate (same kinds, field names and values), gives no          *)
(* difference, whatever shapes its fields have.                            *)
(***************************************************************************)
\* C1: a tree against itself or against its duplicate gives no difference
Reflexivity ==
    Compared /\ BothNodes /\ Changes(node1, node2) = {} => deviations = <<>>

\* the part of C1 that the code keeps: the same object, or a duplicate
\* without object-valued fields
ReflexivityWithoutObjects ==
    Compared /\ BothNodes /\ Changes(node1, node2) = {}
        /\ (node1 = node2 \/ ~HasPlainObject(node1))
    => deviations = <<>>

(***************************************************************************)
(* C2  Identifier-blindness: two trees that differ only in the names of    *)
(* identifier nodes give no difference.                                    *)
(***************************************************************************)
OnlyRenamed(a, b) ==
    Changes(a, b) # {} /\ \A ch \in Changes(a, b) : ch.c = "name"

\* C2: trees that differ only in identifier names give no difference
IdentifierBlindness ==
    Compared /\ BothNodes /\ OnlyRenamed(node1, node2) => deviations = <<>>

IdentifierBlindnessWithoutObjects ==
    Compared /\ BothNodes /\ OnlyRenamed(node1, node2) /\ ~HasPlainObject(node1)
    => deviations = <<>>

(***************************************************************************)
(* C3  Move cancellation: two parents of the same kind whose child lists   *)
(* are permutations of one another, with no content change, give no        *)
(* difference, whatever the permuted children are.  Stated for trees       *)
(* without object-valued fields.                                           *)
(***************************************************************************)
\* the ways to lay items2 over items1
Layouts(items1, items2) ==
    IF Len(items1) # Len(items2) THEN {} ELSE Permutations(DOMAIN items1)

IsPermutationOf(items1, items2) ==
    \E p \in Layouts(items1, items2) :
        \A i \in DOMAIN items1 : Changes(items1[i], items2[p[i]]) = {}

SameKeys(a, b) == ContentKeys(a) = ContentKeys(b)

ChildList(v) == isArray(v) /\ v.items # <<>> /\ isNodeArray(v)

PermutedChildren(a, b) ==
    /\ isNode(a) /\ isNode(b) /\ a.type = b.type /\ SameKeys(a, b)
    /\ \E i \in DOMAIN Content(a) : ChildList(Content(a)[i].val)
    /\ \A i \in DOMAIN Content(a) :
          LET va == Content(a)[i].val
              vb == Content(b)[i].val
          IN  IF ChildList(va) /\ ChildList(vb)
              THEN IsPermutationOf(va.items, vb.items)
              ELSE Changes(va, vb) = {}

\* C3: permuted child lists with no content change give no difference
MoveCancellation ==
    Compared /\ PermutedChildren(node1, node2) /\ ~HasPlainObject(node1)
    => deviations = <<>>

(***************************************************************************)
(* C4  Move cancellation with a real change: when the child list of B is   *)
(* a permutation of the child list of A and exactly one child also has one *)
(* string literal changed, the result is one removal and one addition for  *)
(* that literal and nothing else, for every permutation.  Stated for trees *)
(* without object-valued fields.                                           *)
(***************************************************************************)
\* the literal changes that make items2 a permutation of items1 in which
\* one child has one string literal changed
MovedLiteralChanges(items1, items2) ==
    {ch \in UNION {Changes(items1[i], items2[j]) :
                      i \in DOMAIN items1, j \in DOMAIN items2} :
        /\ ch.c = "literal"
        /\ Get(ch.a, "value").k = "string" /\ Get(ch.b, "value").k = "string"
        /\ \E p \in Layouts(items1, items2) : \E i \in DOMAIN items1 :
              /\ Changes(items1[i], items2[p[i]]) = {ch}
              /\ \A j \in DOMAIN items1 \ {i} : Changes(items1[j], items2[p[j]]) = {}}

BodyOf(n) == Get(n, "body").items

PermutedWithLiteralChange(a, b) ==
    /\ isNode(a) /\ isNode(b) /\ a.type = "Program" /\ b.type = "Program"
    /\ MovedLiteralChanges(BodyOf(a), BodyOf(b)) # {}

\* C4: permuted child lists with one string literal changed give exactly the
\* removal and the addition of that literal
MoveCancellationKeepsChange ==
    Compared /\ PermutedWithLiteralChange(node1, node2) /\ ~HasPlainObject(node1)
    => \E ch \in MovedLiteralChanges(BodyOf(node1), BodyOf(node2)) :
          deviations =
              <<Reported("removal", ch.a, <<"Literal: ", Get(ch.a, "raw").s>>),
                Reported("addition", ch.b, <<"Literal: ", Get(ch.b, "raw").s>>)>>

(***************************************************************************)
(* C5  Non-string-literal blindness: two trees that differ only in one     *)
(* literal whose value is not a string on either side give no difference.  *)
(***************************************************************************)
OneChange(a, b, Kind(_)) ==
    Cardinality(Changes(a, b)) = 1 /\ \A ch \in Changes(a, b) : Kind(ch)

TheChange(a, b) == CHOOSE ch \in Changes(a, b) : TRUE

\* C5: a change of a literal that is a string on neither side gives no
\* difference
NonStringLiteralBlindness ==
    Compared /\ BothNodes /\ OneChange(node1, node2, IsOtherLiteralChange)
    => deviations = <<>>

NonStringLiteralBlindnessWithoutObjects ==
    Compared /\ BothNodes /\ OneChange(node1, node2, IsOtherLiteralChange)
        /\ ~HasPlainObject(node1)
    => deviations = <<>>

(***************************************************************************)
(* C6  String-literal sensitivity: two trees that differ only in one       *)
(* literal whose value is a string on at least one side give exactly one   *)
(* removal with the offsets and text of the literal of A and one addition  *)
(* with those of the literal of B, at any depth.                           *)
(***************************************************************************)
LiteralPair(ch) ==
    <<Reported("removal", ch.a, <<"Literal: ", Get(ch.a, "raw").s>>),
      Reported("addition", ch.b, <<"Literal: ", Get(ch.b, "raw").s>>)>>

\* C6: a change of a literal that is a string on some side gives exactly the
\* removal of the literal of A and the addition of the literal of B
StringLiteralSensitivity ==
    Compared /\ BothNodes /\ OneChange(node1, node2, IsStringLiteralChange)
    => deviations = LiteralPair(TheChange(node1, node2))

StringLiteralSensitivityWithoutObjects ==
    Compared /\ BothNodes /\ OneChange(node1, node2, IsStringLiteralChange)
        /\ ~HasPlainObject(node1)
    => deviations = LiteralPair(TheChange(node1, node2))

(***************************************************************************)
(* C7  Kind mismatch is atomic: two nodes of different kinds give exactly  *)
(* one removal for the node of A and then one addition for the node of B,  *)
(* and nothing for any descendant of either.                               *)
(***************************************************************************)
IsFor(d, type, n) ==
    d.type = type /\ d.start = n.start /\ d.end = n.end /\ d.nodeType = n.type

\* C7: nodes of different kinds give one removal for the node of A, then one
\* addition for the node of B, and nothing else
KindMismatchAtomic ==
    Compared /\ BothNodes /\ node1.type # node2.type
    => /\ Len(deviations) = 2
       /\ IsFor(deviations[1], "removal", node1)
       /\ IsFor(deviations[2], "addition", node2)

\* a shallow node against a deep one of another kind
KindMismatchDeep ==
    /\ Compared /\ BothNodes /\ node1.type # node2.type
    /\ node1.end - node1.start <= 2 /\ node2.end - node2.start >= 6
    /\ Len(deviations) = 2

(***************************************************************************)
(* C8  Field-set divergence is atomic: two nodes of the same kind (not     *)
(* identifier, not literal) with different sets of significant field names *)
(* give exactly one removal and one addition for that node and nothing for *)
(* its children; the same set in another order is not a divergence.        *)
(***************************************************************************)
\* the metadata fields the specification excludes from the comparison
Metadata ==
    {"type", "start", "end", "loc", "range", "raw", "comments",
     "leadingComments", "trailingComments", "innerComments", "extra"}

SignificantFields(n) == {n.fields[i].key : i \in DOMAIN n.fields} \ Metadata

Generic(a, b) ==
    BothNodes /\ a.type = b.type /\ a.type \notin {"Identifier", "Literal"}

IsKeysChanged(d) == Head(d.description) = "Keys changed: "

\* C8: different sets of significant field names give one removal and one
\* addition for the node and nothing else; the same set in another order
\* gives no such pair
FieldSetDivergenceAtomic ==
    Compared /\ Generic(node1, node2)
    => IF SignificantFields(node1) # SignificantFields(node2)
       THEN /\ Len(deviations) = 2
            /\ IsFor(deviations[1], "removal", node1) /\ IsKeysChanged(deviations[1])
            /\ IsFor(deviations[2], "addition", node2) /\ IsKeysChanged(deviations[2])
       ELSE \A i \in DOMAIN deviations :
               ~(IsKeysChanged(deviations[i])
                    /\ (IsFor(deviations[i], "removal", node1)
                           \/ IsFor(deviations[i], "addition", node2)))

\* a node that gains a field while its child changes too
FieldSetDivergenceWithChangedChild ==
    /\ Compared /\ Generic(node1, node2)
    /\ SignificantFields(node1) # SignificantFields(node2)
    /\ Changes(Get(node1, "expression"), Get(node2, "expression")) # {}
    /\ Len(deviations) = 2

(***************************************************************************)
(* C9  Early return on scalar mismatch: a node that differs from its       *)
(* counterpart in two or more scalar fields and in nothing else gives      *)
(* exactly one removal and one addition for that node, describing the      *)
(* first differing field in the field order of A.                          *)
(***************************************************************************)
OwnScalarChanges(a, b) ==
    /\ Cardinality(Changes(a, b)) >= 2
    /\ \A ch \in Changes(a, b) : ch.c = "scalar" /\ ch.at = a.start

FirstChangedKey(a, b) ==
    LET changed == {i \in DOMAIN Content(a) : FieldChanges(a, b, i) # {}}
    IN  Content(a)[CHOOSE i \in changed : \A j \in changed : i <= j].key

DescribesField(d, key) == d.description[1] = "Property '" /\ d.description[2] = key

OnePairForFirstField ==
    /\ Len(deviations) = 2
    /\ IsFor(deviations[1], "removal", node1)
    /\ IsFor(deviations[2], "addition", node2)
    /\ DescribesField(deviations[1], FirstChangedKey(node1, node2))
    /\ DescribesField(deviations[2], FirstChangedKey(node1, node2))

\* C9: two or more differing scalar fields give one removal and one addition
\* for the node, describing the first differing field
EarlyReturnOnScalarMismatch ==
    Compared /\ Generic(node1, node2) /\ OwnScalarChanges(node1, node2)
    => OnePairForFirstField

EarlyReturnOnScalarMismatchWithoutObjects ==
    Compared /\ Generic(node1, node2) /\ OwnScalarChanges(node1, node2)
        /\ ~HasPlainObject(node1)
    => OnePairForFirstField

(***************************************************************************)
(* C10  Null handling: null against a node gives exactly one addition, a   *)
(* node against null exactly one removal, each with the kind, offsets and  *)
(* description of that node and nothing for its descendants; null against  *)
(* null gives nothing.                                                     *)
(***************************************************************************)
\* C10: null against a node gives one addition, a node against null one
\* removal, null against null nothing
NullHandling ==
    Compared =>
       /\ node1 = Null /\ node2 # Null
             => deviations = <<Reported("addition", node2, getNodeDescription(node2))>>
       /\ node1 # Null /\ node2 = Null
             => deviations = <<Reported("removal", node1, getNodeDescription(node1))>>
       /\ node1 = Null /\ node2 = Null => deviations = <<>>

\* a node with descendants against null
NullAgainstDeepNode ==
    /\ Compared /\ node1 # Null /\ node2 = Null
    /\ node1.end - node1.start >= 6
    /\ Len(deviations) = 1 /\ deviations[1].type = "removal"

(***************************************************************************)
(* filterMoves on its own: a frame of compareASTs hands it the list it has *)
(* accumulated.  The lists are all sequences of up to MaxMoves differences  *)
(* over a few keys; the start offset of an item is its index in the list,  *)
(* so that equal keys do not make equal items.                             *)
(***************************************************************************)
MaxMoves == 4

MoveKinds ==
    {[type |-> t, nodeType |-> k[1], description |-> k[2]] :
        t \in {"removal", "addition"},
        k \in {<<"CallExpression", <<"Call: ", "f", "()">>>>,
               <<"CallExpression", <<"Call: ", "g", "()">>>>,
               <<"NewExpression", <<"Call: ", "f", "()">>>>}}

MoveList(kinds) ==
    [i \in DOMAIN kinds |->
        [type |-> kinds[i].type, start |-> i, end |-> i + 1,
         nodeType |-> kinds[i].nodeType, description |-> kinds[i].description]]

MoveLists == {MoveList(kinds) : kinds \in SeqsUpTo(MoveKinds, MaxMoves)}

FilterInit ==
    /\ accumulatedDeviations \in MoveLists
    /\ deviations = <<>>
    /\ pc = "accumulated"
    /\ node1 = Null /\ node2 = Null
    /\ NoMain
    /\ NoLines
    /\ NoRender

Filter ==
    /\ pc = "accumulated"
    /\ deviations' = filterMoves(accumulatedDeviations)
    /\ pc' = "filtered"
    /\ accumulatedDeviations' = ListAfterFilter(accumulatedDeviations)
    /\ UNCHANGED <<node1, node2, mainVars, lineVars, renderVars>>

FilterNext == Filter

FilterSpec == FilterInit /\ [][FilterNext]_vars

Filtered == pc = "filtered"

SameKey(d, e) == d.nodeType = e.nodeType /\ d.description = e.description

\* how many items of list[i]'s type and key the list has up to index i
Rank(list, i) ==
    Cardinality({j \in 1..i : list[j].type = list[i].type /\ SameKey(list[j], list[i])})

CountOf(list, type, d) ==
    Cardinality({j \in DOMAIN list : list[j].type = type /\ SameKey(list[j], d)})

Min(x, y) == IF x <= y THEN x ELSE y

\* item i is one of the earliest min(r, a) items of its type and key
Cancelled(list, i) ==
    Rank(list, i) <= Min(CountOf(list, "removal", list[i]),
                         CountOf(list, "addition", list[i]))

Survivors(list) == {list[i] : i \in {j \in DOMAIN list : ~Cancelled(list, j)}}

\* C11: of every key with r removals and a additions filterMoves drops the
\* earliest min(r, a) removals and the earliest min(r, a) additions and keeps
\* every other item, each once
ReconcilerMatching ==
    Filtered =>
        /\ Range(deviations) = Survivors(accumulatedDeviations)
        /\ Len(deviations) = Cardinality(Survivors(accumulatedDeviations))

\* two removals and one addition of one key among items of the other keys:
\* the first removal and the addition are gone, the second removal stays
ReconcilerMatchingWitness ==
    /\ Filtered
    /\ \E i, j, m \in DOMAIN accumulatedDeviations :
          /\ i < j
          /\ accumulatedDeviations[i].type = "removal" /\ accumulatedDeviations[j].type = "removal"
          /\ accumulatedDeviations[m].type = "addition"
          /\ SameKey(accumulatedDeviations[i], accumulatedDeviations[j])
          /\ SameKey(accumulatedDeviations[i], accumulatedDeviations[m])
          /\ accumulatedDeviations[i] \notin Range(deviations)
          /\ accumulatedDeviations[m] \notin Range(deviations)
          /\ accumulatedDeviations[j] \in Range(deviations)
    /\ \E n \in DOMAIN accumulatedDeviations :
          /\ accumulatedDeviations[n].type = "addition"
          /\ accumulatedDeviations[n] \in Range(deviations)

\* C12: in the result no removal comes after an addition, and two items of
\* one type are in the order the input has them (an item's start is its
\* index in the input)
ReconcilerOutputOrder ==
    Filtered =>
        \A i, j \in DOMAIN deviations :
            i < j =>
                /\ ~(deviations[i].type = "addition" /\ deviations[j].type = "removal")
                /\ deviations[i].type = deviations[j].type =>
                       deviations[i].start < deviations[j].start

\* the input has an addition before a removal and a removal after an
\* addition, and two of each are left: the result has moved items
ReconcilerOutputOrderWitness ==
    /\ Filtered
    /\ Len(deviations) = 4
    /\ accumulatedDeviations[1].type = "addition"
    /\ accumulatedDeviations[2].type = "removal"
    /\ accumulatedDeviations[3].type = "addition"
    /\ accumulatedDeviations[4].type = "removal"
    /\ deviations # accumulatedDeviations

RECURSIVE NodesOf(_)
RECURSIVE NodesOfAll(_)
NodesOfAll(vals) ==
    IF vals = <<>> THEN {} ELSE NodesOf(Head(vals)) \cup NodesOfAll(Tail(vals))

\* the nodes of a tree
NodesOf(v) ==
    CASE v.k = "node" -> {v} \cup NodesOfAll([i \in DOMAIN v.fields |-> v.fields[i].val])
      [] v.k = "array" -> NodesOfAll(v.items)
      [] OTHER -> {}

IsOf(d, n) == d.start = n.start /\ d.end = n.end /\ d.nodeType = n.type

\* C13: every removal has the offsets and kind of a node of the first tree,
\* every addition those of a node of the second tree
DifferenceProvenance ==
    Compared =>
        \A i \in DOMAIN deviations :
            /\ deviations[i].type = "removal" =>
                   \E n \in NodesOf(node1) : IsOf(deviations[i], n)
            /\ deviations[i].type = "addition" =>
                   \E n \in NodesOf(node2) : IsOf(deviations[i], n)

\* a removal and an addition of nodes below the roots, where no node of the
\* other tree has the addition's offsets and kind
DifferenceProvenanceWitness ==
    /\ Compared /\ BothNodes
    /\ \E i, j \in DOMAIN deviations :
          /\ deviations[i].type = "removal" /\ deviations[i].start # node1.start
          /\ deviations[j].type = "addition" /\ deviations[j].start # node2.start
          /\ \A n \in NodesOf(node1) : ~IsOf(deviations[j], n)
          /\ \A n \in NodesOf(node2) : ~IsOf(deviations[i], n)

RECURSIVE Calls(_, _)
RECURSIVE ElementCalls(_, _, _)
RECURSIVE KeyCalls(_, _, _)
RECURSIVE ElementCallsAllPairs(_, _, _)

\* as ElementCalls, had every child of the first list been compared with
\* every child of the second
ElementCallsAllPairs(items1, items2, i) ==
    IF i > Len(items1) * Len(items2) THEN <<>>
    ELSE LET child1 == items1[((i - 1) \div Len(items2)) + 1]
             child2 == items2[((i - 1) % Len(items2)) + 1]
         IN  (IF child1 # Null \/ child2 # Null
              THEN Calls(child1, child2) ELSE <<>>)
             \o ElementCallsAllPairs(items1, items2, i + 1)

ElementCalls(items1, items2, i) ==
    LET maxLength == IF Len(items1) >= Len(items2) THEN Len(items1) ELSE Len(items2)
    IN  IF i > maxLength THEN <<>>
        ELSE LET child1 == IF i <= Len(items1) THEN items1[i] ELSE Null
                 child2 == IF i <= Len(items2) THEN items2[i] ELSE Null
             IN  (IF child1 # Null \/ child2 # Null
                  THEN Calls(child1, child2) ELSE <<>>)
                 \o ElementCalls(items1, items2, i + 1)

KeyCalls(n1, n2, keys) ==
    IF keys = <<>> THEN <<>>
    ELSE LET key == Head(keys)
             val1 == Get(n1, key)
             val2 == Get(n2, key)
         IN  IF isNode(val1) \/ isNode(val2)
             THEN Calls(IF isNode(val1) THEN val1 ELSE Null,
                        IF isNode(val2) THEN val2 ELSE Null)
                  \o KeyCalls(n1, n2, Tail(keys))
             ELSE IF isNodeArray(val1) /\ isNodeArray(val2)
             THEN ElementCalls(val1.items, val2.items, 1) \o KeyCalls(n1, n2, Tail(keys))
             ELSE IF isArray(val1) /\ isArray(val2)
             THEN IF NonNodeArrayChanged(val1, val2)
                  THEN <<>> ELSE KeyCalls(n1, n2, Tail(keys))
             ELSE IF StrictNotEqual(val1, val2)
             THEN <<>> ELSE KeyCalls(n1, n2, Tail(keys))

Calls(n1, n2) ==
    <<<<n1, n2>>>> \o
    (IF n1 = Null \/ n2 = Null THEN <<>>
     ELSE IF n1.type # n2.type THEN <<>>
     ELSE IF n1.type \in {"Identifier", "Literal"} THEN <<>>
     ELSE IF KeysChanged(RelevantKeys(n1), RelevantKeys(n2)) THEN <<>>
     ELSE KeyCalls(n1, n2, RelevantKeys(n1)))

\* the calls that have node n of tree number side as that argument
CallsOn(calls, side, n) == {i \in DOMAIN calls : calls[i][side] = n}

\* C15: a comparison makes finitely many calls: each is on a node of the
\* first tree or none and a node of the second tree or none, no node of
\* either tree is the argument of two calls, every call after the first has
\* a node on one side, and so there are no more calls than one and the nodes
\* of the two trees
Termination ==
    Compared =>
        LET calls == Calls(node1, node2)
        IN  /\ \A i \in DOMAIN calls :
                  /\ calls[i][1] \in NodesOf(node1) \cup {Null}
                  /\ calls[i][2] \in NodesOf(node2) \cup {Null}
            /\ \A n \in NodesOf(node1) : Cardinality(CallsOn(calls, 1, n)) <= 1
            /\ \A n \in NodesOf(node2) : Cardinality(CallsOn(calls, 2, n)) <= 1
            /\ \A i \in DOMAIN calls : i > 1 => calls[i] # <<Null, Null>>
            /\ Len(calls) <= 1 + Cardinality(NodesOf(node1)) + Cardinality(NodesOf(node2))

\* a comparison that went through lists of unequal lengths: at least
\* six calls, one of them with nothing on the first side
TerminationWitness ==
    /\ Compared /\ BothNodes
    /\ LET calls == Calls(node1, node2)
       IN  /\ Len(calls) >= 6
           /\ \E i \in DOMAIN calls : calls[i][1] = Null

(***************************************************************************)
(* main in file-comparison mode (src/index.ts with prettier,               *)
(* src/unnamed/part_002 with Biome): read both files, format, parse,       *)
(* compare, display.                                                       *)
(*                                                                         *)
(* A file is the program written in it and what the environment does with  *)
(* it: whether it can be read, whether the formatter takes it, whether     *)
(* acorn parses it.  A text is a file's content as read or as formatted;   *)
(* formatting moves the offsets of the nodes.                              *)
(***************************************************************************)
MainPrograms ==
    {Program(<<ExpressionStatement(CallExpression(IdA, <<StrA>>))>>),
     Program(<<ExpressionStatement(CallExpression(IdA, <<StrB>>))>>),
     Program(<<VariableDeclaration(<<VariableDeclarator(IdA, Num5)>>, "let")>>)}

Files ==
    [program : MainPrograms, readable : BOOLEAN, formattable : BOOLEAN,
     parsable : BOOLEAN]

Original(i) == [file |-> i, formatted |-> FALSE]

Formatted(text) == [text EXCEPT !.formatted = TRUE]

Formattable(text) == files[text.file].formattable

Parsable(text) == files[text.file].parsable

\* src/unnamed/part_001: the tree of a text that parses
generateAST(text, heap) ==
    Locate(files[text.file].program, heap, IF text.formatted THEN 0 ELSE 1)

\* src/index.ts 83-95: each format result is assigned as soon as it is there
PrettierFormat(s1, s2) ==
    IF ~Formattable(s1) THEN <<s1, s2>>
    ELSE IF ~Formattable(s2) THEN <<Formatted(s1), s2>>
    ELSE <<Formatted(s1), Formatted(s2)>>

\* src/unnamed/part_002 87-117: both results are there and checked before
\* either is assigned
BiomeFormat(s1, s2) ==
    IF ~Formattable(s1) \/ ~Formattable(s2) THEN <<s1, s2>>
    ELSE <<Formatted(s1), Formatted(s2)>>

MainInit ==
    /\ argv \in [d : BOOLEAN, t : BOOLEAN]
    /\ files \in [1..2 -> Files]
    /\ formatter \in {"prettier", "biome"}
    /\ snippet1 = Undefined /\ snippet2 = Undefined
    /\ exitCode = Undefined
    /\ generated = <<>>
    /\ node1 = Undefined /\ node2 = Undefined
    /\ deviations = <<>>
    /\ accumulatedDeviations = <<>>
    /\ pc = "start"
    /\ NoLines
    /\ NoRender

ReadFiles ==
    /\ pc = "start"
    /\ snippet1' = IF files[1].readable THEN Original(1) ELSE snippet1
    /\ snippet2' = IF files[1].readable /\ files[2].readable
                   THEN Original(2) ELSE snippet2
    /\ IF files[1].readable /\ files[2].readable
       THEN pc' = "read" /\ UNCHANGED exitCode
       ELSE pc' = "exited" /\ exitCode' = 1
    /\ UNCHANGED <<argv, files, formatter, generated, node1, node2, deviations,
                   accumulatedDeviations, lineVars, renderVars>>

Format ==
    /\ pc = "read"
    /\ LET texts == IF formatter = "prettier"
                    THEN PrettierFormat(snippet1, snippet2)
                    ELSE BiomeFormat(snippet1, snippet2)
       IN  snippet1' = texts[1] /\ snippet2' = texts[2]
    /\ pc' = "formatted"
    /\ UNCHANGED <<argv, files, formatter, exitCode, generated, node1, node2,
                   deviations, accumulatedDeviations, lineVars, renderVars>>

\* as ParseBoth, had the catch block not ended the process: the tree of a
\* text that does not parse stays undefined
ParseBothAndGoOn(s1, s2) ==
    [ok |-> TRUE,
     ast1 |-> IF Parsable(s1) THEN generateAST(s1, "A") ELSE Undefined,
     ast2 |-> IF Parsable(s1) /\ Parsable(s2) THEN generateAST(s2, "B") ELSE Undefined]

\* the try block around the two generateAST calls
ParseBoth(s1, s2) ==
    IF Parsable(s1) /\ Parsable(s2)
    THEN [ok |-> TRUE, ast1 |-> generateAST(s1, "A"), ast2 |-> generateAST(s2, "B")]
    ELSE [ok |-> FALSE, ast1 |-> Undefined, ast2 |-> Undefined]

Parse ==
    /\ pc = "formatted"
    /\ LET parsed == ParseBoth(snippet1, snippet2)
       IN  /\ node1' = parsed.ast1
           /\ node2' = parsed.ast2
           /\ IF parsed.ok
              THEN pc' = "parsed" /\ UNCHANGED exitCode
              ELSE pc' = "exited" /\ exitCode' = 1
    /\ UNCHANGED <<argv, files, formatter, snippet1, snippet2, generated,
                   deviations, accumulatedDeviations, lineVars, renderVars>>

\* generateDiffs(snippet1, snippet2, deviations) under -d; the process then
\* ends on its own.  What generateDiffs computes from its arguments is not
\* part of this step: the texts here have no characters.
Display ==
    /\ pc = "compared"
    /\ generated' = IF argv.d
                    THEN <<[code1 |-> snippet1, code2 |-> snippet2,
                            deviations |-> deviations]>>
                    ELSE generated
    /\ pc' = "done"
    /\ exitCode' = 0
    /\ UNCHANGED <<argv, files, formatter, snippet1, snippet2, node1, node2,
                   deviations, accumulatedDeviations, lineVars, renderVars>>

MainNext == ReadFiles \/ Format \/ Parse \/ Compare \/ Display

MainSpec == MainInit /\ [][MainNext]_vars

\* the formatting step is over
AfterFormat == pc \in {"formatted", "parsed", "compared", "done"}
                  \/ (pc = "exited" /\ snippet2 # Undefined)

FormatFailed == ~files[1].formattable \/ ~files[2].formattable

BothOriginal == snippet1 = Original(1) /\ snippet2 = Original(2)

\* the run ended with a failure although both files were read and both
\* texts parse
Aborted == pc = "exited" /\ Parsable(snippet1) /\ Parsable(snippet2)

\* C16: when the formatter fails on the first or on the second input, the
\* run goes on and the texts parsed, compared and displayed are the two
\* original texts
FormatFailureFallback ==
    (AfterFormat /\ FormatFailed) =>
        /\ BothOriginal
        /\ ~Aborted
        /\ \A i \in DOMAIN generated :
              generated[i].code1 = Original(1) /\ generated[i].code2 = Original(2)

\* the same of the Biome variant alone
FormatFailureFallbackBiome == formatter = "biome" => FormatFailureFallback

\* the same when the formatter fails on the first input
FormatFailureFallbackFirst == ~files[1].formattable => FormatFailureFallback

\* a run of the Biome variant where the second input alone does not format
\* and the two original texts were compared and displayed
FormatFailureFallbackBiomeWitness ==
    /\ pc = "done" /\ formatter = "biome"
    /\ files[1].formattable /\ ~files[2].formattable
    /\ Len(generated) = 1 /\ generated[1].code1 = Original(1)
    /\ deviations # <<>>

\* a text that does not parse has been handed to generateAST
ParseFailed ==
    /\ pc \in {"parsed", "compared", "done"} \/ (pc = "exited" /\ snippet2 # Undefined)
    /\ ~Parsable(snippet1) \/ ~Parsable(snippet2)

\* C17: once parsing an input has failed the process has exited with status 1
\* and compareASTs and generateDiffs have not run; where compareASTs is about
\* to run or has run, both texts have parsed and both trees are there
ParseFailureAbort ==
    /\ ParseFailed =>
          /\ pc = "exited" /\ exitCode = 1
          /\ deviations = <<>> /\ generated = <<>>
    /\ pc \in {"parsed", "compared", "done"} =>
          /\ Parsable(snippet1) /\ Parsable(snippet2)
          /\ isNode(node1) /\ isNode(node2)

\* the first text parses, the second does not, and the run has ended; and
\* the formatter had taken both
ParseFailureAbortWitness ==
    /\ pc = "exited" /\ exitCode = 1
    /\ snippet1 = Formatted(Original(1)) /\ snippet2 = Formatted(Original(2))
    /\ Parsable(snippet1) /\ ~Parsable(snippet2)

(***************************************************************************)
(* src/diff/generate.ts: the two versions of getLineNumber.  A text is a   *)
(* sequence of characters; only line breaks matter to either version.      *)
(* Offsets and the entries of lineStarts count from 0, as in the code.     *)
(***************************************************************************)
MaxLen == 3

MaxTexts == 2

Texts == SeqsUpTo({"x", "\n"}, MaxLen)

Offsets == -1 .. MaxLen + 1

\* code.substring(from, to) for 0 <= from <= to <= code.length
substring(text, from, to) == SubSeq(text, from + 1, to)

RECURSIVE split(_, _)
\* text.split(separator) for a separator of one character
split(text, separator) ==
    LET found == {p \in DOMAIN text : text[p] = separator}
    IN  IF found = {} THEN <<text>>
        ELSE LET p == CHOOSE q \in found : \A r \in found : q <= r
             IN  <<SubSeq(text, 1, p - 1)>>
                 \o split(SubSeq(text, p + 1, Len(text)), separator)

\* the first version, lines 5-9
getLineNumberBySplit(text, index) ==
    IF index < 0 THEN 1
    ELSE Len(split(substring(text, 0, Min(index, Len(text))), "\n"))

RECURSIVE NewlineStarts(_, _)
\* the loop over the matches of /\n/g from position from (1-based): after a
\* match at index m the next line starts at m + 1
NewlineStarts(text, from) ==
    IF from > Len(text) THEN <<>>
    ELSE (IF text[from] = "\n" THEN <<(from - 1) + 1>> ELSE <<>>)
         \o NewlineStarts(text, from + 1)

RECURSIVE BinarySearchBelow(_, _, _, _, _)
RECURSIVE BinarySearch(_, _, _, _, _)
\* as BinarySearch, taking a line only when it starts before the index
BinarySearchBelow(lineStarts, safeCharIndex, low, high, found) ==
    IF low > high THEN found
    ELSE LET mid == (low + high) \div 2
         IN  IF lineStarts[mid + 1] < safeCharIndex
             THEN BinarySearchBelow(lineStarts, safeCharIndex, mid + 1, high, mid + 1)
             ELSE BinarySearchBelow(lineStarts, safeCharIndex, low, mid - 1, found)

\* the while loop of lines 151-162
BinarySearch(lineStarts, safeCharIndex, low, high, found) ==
    IF low > high THEN found
    ELSE LET mid == (low + high) \div 2
         IN  IF lineStarts[mid + 1] <= safeCharIndex
             THEN BinarySearch(lineStarts, safeCharIndex, mid + 1, high, mid + 1)
             ELSE BinarySearch(lineStarts, safeCharIndex, low, mid - 1, found)

\* lineStartCache is a Map: the set of its entries
MapHas(map, key) == \E entry \in map : entry.key = key

MapGet(map, key) == (CHOOSE entry \in map : entry.key = key).value

MapSet(map, key, value) ==
    {entry \in map : entry.key # key} \cup {[key |-> key, value |-> value]}

\* the second version, lines 126-167: the line and the cache after the call
getLineNumber(cache, text, index) ==
    IF index < 0 THEN [line |-> 1, cache |-> cache]
    ELSE LET safeCharIndex == Min(index, Len(text))
             lineStarts == IF MapHas(cache, text) THEN MapGet(cache, text)
                           ELSE <<0>> \o NewlineStarts(text, 1)
         IN  [line |-> BinarySearch(lineStarts, safeCharIndex, 0, Len(lineStarts) - 1, 1),
              cache |-> IF MapHas(cache, text) THEN cache
                        ELSE MapSet(cache, text, lineStarts)]

LinesInit ==
    /\ lineStartCache = {}
    /\ code = <<>>
    /\ charIndex = 0
    /\ line = Undefined
    /\ pc = "lines"
    /\ node1 = Null /\ node2 = Null
    /\ deviations = <<>>
    /\ accumulatedDeviations = <<>>
    /\ NoMain
    /\ NoRender

\* one call of each version on the same text and offset; the cache holds at
\* most MaxTexts texts
GetLineNumber ==
    /\ pc = "lines"
    /\ \E text \in Texts, index \in Offsets :
          /\ \/ index < 0
             \/ MapHas(lineStartCache, text)
             \/ Cardinality(lineStartCache) < MaxTexts
          /\ LET call == getLineNumber(lineStartCache, text, index)
             IN  /\ line' = [cached |-> call.line,
                             split |-> getLineNumberBySplit(text, index),
                             hit |-> index >= 0 /\ MapHas(lineStartCache, text)]
                 /\ lineStartCache' = call.cache
          /\ code' = text
          /\ charIndex' = index
    /\ UNCHANGED <<pc, node1, node2, deviations, accumulatedDeviations, mainVars,
                   renderVars>>

LinesNext == GetLineNumber

LinesSpec == LinesInit /\ [][LinesNext]_vars

\* the line breaks among the first min(index, length) characters
LineBreaksBefore(text, index) ==
    Cardinality({p \in 1..Min(index, Len(text)) : text[p] = "\n"})

\* C18: both versions of getLineNumber return 1 for a negative offset and
\* otherwise 1 plus the number of line breaks among the first
\* min(index, length) characters, whether or not the text is in the cache
LineMapping ==
    line # Undefined =>
        /\ line.split = (IF charIndex < 0 THEN 1 ELSE 1 + LineBreaksBefore(code, charIndex))
        /\ line.cached = line.split

\* a call that found its text in the cache, on an offset past the end of a
\* text of three lines, while the cache holds another text as well
LineMappingWitness ==
    /\ line # Undefined /\ line.hit
    /\ charIndex > Len(code)
    /\ line.cached = 3
    /\ Cardinality(lineStartCache) = 2

(***************************************************************************)
(* The early return of the loop over the fields                            *)
(***************************************************************************)
\* the fields the loop goes through, in the order of the first node
LoopFields(n) ==
    LET Significant(f) == f.key \notin Metadata
    IN  SelectSeq(n.fields, Significant)

ScalarMismatch(va, vb) == Primitive(va) /\ Primitive(vb) /\ va # vb

\* two lists, not both lists of children, that differ
PrimitiveListMismatch(va, vb) ==
    /\ isArray(va) /\ isArray(vb)
    /\ \E i \in DOMAIN va.items : Primitive(va.items[i]) /\ va.items[i] # Null
    /\ va # vb

Mismatch(a, b, i) ==
    LET va == LoopFields(a)[i].val
        vb == Get(b, LoopFields(a)[i].key)
    IN  ScalarMismatch(va, vb) \/ PrimitiveListMismatch(va, vb)

HasMismatch(a, b) == \E i \in DOMAIN LoopFields(a) : Mismatch(a, b, i)

\* the index of field k: the first field with a mismatch
FirstMismatch(a, b) ==
    CHOOSE i \in DOMAIN LoopFields(a) :
        Mismatch(a, b, i) /\ \A j \in 1..(i - 1) : ~Mismatch(a, b, j)

RECURSIVE Gathered(_, _, _)
\* the differences of the children in the first upto fields, as the
\* comparisons of the children give them
Gathered(a, b, upto) ==
    IF upto = 0 THEN <<>>
    ELSE LET va == LoopFields(a)[upto].val
             vb == Get(b, LoopFields(a)[upto].key)
         IN  Gathered(a, b, upto - 1)
             \o (IF isNode(va) \/ isNode(vb)
                 THEN compareASTs(IF isNode(va) THEN va ELSE Null,
                                  IF isNode(vb) THEN vb ELSE Null)
                 ELSE IF isNodeArray(va) /\ isNodeArray(vb)
                 THEN CompareElements(va.items, vb.items, 1)
                 ELSE <<>>)

SameBag(s, t) ==
    /\ Len(s) = Len(t)
    /\ \A x \in Range(s) \cup Range(t) :
          Cardinality({i \in DOMAIN s : s[i] = x})
              = Cardinality({i \in DOMAIN t : t[i] = x})

Without(s, i, j) ==
    LET rest == {m \in DOMAIN s : m # i /\ m # j}
        Nth(n) == CHOOSE m \in rest : Cardinality({r \in rest : r < m}) = n - 1
    IN  [n \in 1..Cardinality(rest) |-> s[Nth(n)]]

\* the result is the reconciled differences of the fields before field k and
\* one removal and one addition for the two nodes themselves
PastAndOnePair(a, b) ==
    LET past == filterMoves(Gathered(a, b, FirstMismatch(a, b) - 1))
    IN  \E i, j \in DOMAIN deviations :
            /\ IsFor(deviations[i], "removal", a)
            /\ IsFor(deviations[j], "addition", b)
            /\ deviations[i].description[2] = LoopFields(a)[FirstMismatch(a, b)].key
            /\ deviations[j].description[2] = LoopFields(a)[FirstMismatch(a, b)].key
            /\ SameBag(Without(deviations, i, j), past)

EarlyReturnCase ==
    /\ Compared /\ Generic(node1, node2)
    /\ SignificantFields(node1) = SignificantFields(node2)
    /\ ~HasPlainObject(node1) /\ ~HasPlainObject(node2)
    /\ HasMismatch(node1, node2)

\* C19: when a field of a node is a mismatching scalar or a mismatching
\* primitive list, the result is the reconciled differences of the fields
\* before it and one removal/addition pair for the node, and nothing from
\* the fields after it
EarlyReturnKeepsPast == EarlyReturnCase => PastAndOnePair(node1, node2)

\* the same for a mismatching scalar alone
EarlyReturnKeepsPastOfScalar ==
    (EarlyReturnCase
        /\ LET i == FirstMismatch(node1, node2)
           IN  ScalarMismatch(LoopFields(node1)[i].val,
                              Get(node2, LoopFields(node1)[i].key)))
    => PastAndOnePair(node1, node2)

\* a scalar mismatch after a child that differs: the removal for the node
\* comes before the addition of the child
EarlyReturnKeepsPastOfScalarWitness ==
    /\ EarlyReturnCase
    /\ LET i == FirstMismatch(node1, node2)
       IN  /\ ScalarMismatch(LoopFields(node1)[i].val,
                             Get(node2, LoopFields(node1)[i].key))
           /\ Gathered(node1, node2, i - 1) # <<>>
    /\ Len(deviations) = 4
    /\ IsFor(deviations[2], "removal", node1)
    /\ deviations[3].type = "addition"

\* a scalar mismatch before a child that differs: the pair for the node alone
EarlyReturnDropsFutureWitness ==
    /\ EarlyReturnCase
    /\ LET i == FirstMismatch(node1, node2)
       IN  /\ ScalarMismatch(LoopFields(node1)[i].val,
                             Get(node2, LoopFields(node1)[i].key))
           /\ Len(Gathered(node1, node2, Len(LoopFields(node1))))
                  > Len(Gathered(node1, node2, i))
    /\ Len(deviations) = 2

\* a mismatching primitive list leaves no pair for the node: where nothing
\* else was gathered the result is empty
PrimitiveListMismatchUnreported ==
    /\ EarlyReturnCase
    /\ LET i == FirstMismatch(node1, node2)
       IN  PrimitiveListMismatch(LoopFields(node1)[i].val,
                                 Get(node2, LoopFields(node1)[i].key))
    /\ deviations = <<>>

(***************************************************************************)
(* Two lists of children                                                   *)
(***************************************************************************)
\* entry i of a list, from 1; past the end of the list it counts as null
Entry(items, i) == IF i <= Len(items) THEN items[i] ELSE Null

Longer(items1, items2) == IF Len(items1) >= Len(items2) THEN Len(items1) ELSE Len(items2)

\* what index i gives: nothing where both entries are null, else the
\* comparison of the two entries
AtIndex(items1, items2, i) ==
    IF Entry(items1, i) = Null /\ Entry(items2, i) = Null THEN <<>>
    ELSE compareASTs(Entry(items1, i), Entry(items2, i))

RECURSIVE UpToIndex(_, _, _)
UpToIndex(items1, items2, i) ==
    IF i = 0 THEN <<>>
    ELSE UpToIndex(items1, items2, i - 1) \o AtIndex(items1, items2, i)

\* a field of the first node that holds a list of children in both nodes
ChildListFields(a, b) ==
    {i \in DOMAIN LoopFields(a) :
        /\ isNodeArray(LoopFields(a)[i].val)
        /\ isNodeArray(Get(b, LoopFields(a)[i].key))}

PositionalCase ==
    /\ Compared /\ Generic(node1, node2)
    /\ SignificantFields(node1) = SignificantFields(node2)

\* C20: two lists of children are compared index by index up to the longer
\* length; an index with null on both sides gives nothing, an index with a
\* node on one side only gives one removal for the node of the first list or
\* one addition for the node of the second; where the list is the only field
\* the result is these differences reconciled
PositionalAlignment ==
    PositionalCase =>
        \A f \in ChildListFields(node1, node2) :
            LET items1 == LoopFields(node1)[f].val.items
                items2 == Get(node2, LoopFields(node1)[f].key).items
                all == UpToIndex(items1, items2, Longer(items1, items2))
            IN  /\ CompareElements(items1, items2, 1) = all
                /\ \A i \in 1..Longer(items1, items2) :
                      LET c1 == Entry(items1, i)
                          c2 == Entry(items2, i)
                          at == AtIndex(items1, items2, i)
                      IN  /\ (c1 # Null /\ c2 = Null) =>
                                 Len(at) = 1 /\ IsFor(at[1], "removal", c1)
                          /\ (c1 = Null /\ c2 # Null) =>
                                 Len(at) = 1 /\ IsFor(at[1], "addition", c2)
                /\ Len(LoopFields(node1)) = 1 => deviations = filterMoves(all)

\* lists of lengths 2 and 3 with a hole against a node, a node against a
\* hole and a node past the end of the shorter list
PositionalAlignmentWitness ==
    /\ PositionalCase /\ node1.type = "ArrayExpression"
    /\ LET items1 == Get(node1, "elements").items
           items2 == Get(node2, "elements").items
       IN  /\ Len(items1) = 2 /\ Len(items2) = 3
           /\ items1[1] = Null /\ items2[1] # Null
           /\ items1[2] # Null /\ items2[2] = Null
    /\ Len(deviations) = 3

(***************************************************************************)
(* The same tree with other metadata: parsed from a text with other        *)
(* offsets, or from a text that writes its string literals in single       *)
(* quotes.  Content, kinds and field order stay.                           *)
(***************************************************************************)
RECURSIVE Shifted(_, _)
\* every node offset moved by by
Shifted(v, by) ==
    CASE v.k = "node" ->
            [v EXCEPT !.start = v.start + by, !.end = v.end + by,
                      !.fields = [i \in DOMAIN v.fields |->
                                     IF v.fields[i].key = "range"
                                     THEN F("range", Arr(<<Num(v.start + by), Num(v.end + by)>>))
                                     ELSE IF v.fields[i].key = "loc" THEN v.fields[i]
                                     ELSE F(v.fields[i].key, Shifted(v.fields[i].val, by))]]
      [] v.k = "array" -> [v EXCEPT !.items = [i \in DOMAIN v.items |-> Shifted(v.items[i], by)]]
      [] OTHER -> v

\* the raw text of a string literal written in single quotes
SingleQuoted(raw) ==
    CASE raw = Str("\"a\"") -> Str("'a'")
      [] raw = Str("\"b\"") -> Str("'b'")
      [] raw = Str("\"5\"") -> Str("'5'")
      [] OTHER -> raw

RECURSIVE Requoted(_)
\* the field raw of every string literal in single quotes
Requoted(v) ==
    CASE v.k = "node" ->
            [v EXCEPT !.fields = [i \in DOMAIN v.fields |->
                                     IF v.type = "Literal" /\ v.fields[i].key = "raw"
                                     THEN F("raw", SingleQuoted(v.fields[i].val))
                                     ELSE IF v.fields[i].key \in {"loc", "range"}
                                     THEN v.fields[i]
                                     ELSE F(v.fields[i].key, Requoted(v.fields[i].val))]]
      [] v.k = "array" -> [v EXCEPT !.items = [i \in DOMAIN v.items |-> Requoted(v.items[i])]]
      [] OTHER -> v

\* what a list of differences says apart from offsets
Signature(devs) ==
    [i \in DOMAIN devs |-> <<devs[i].type, devs[i].nodeType, devs[i].description>>]

MetadataCase ==
    /\ Compared /\ BothNodes
    /\ ~HasPlainObject(node1) /\ ~HasPlainObject(node2)

\* C21: the second tree with other offsets, or with other raw text of its
\* literals, gives differences of the same number, types, kinds and
\* descriptions
MetadataIndependence ==
    MetadataCase =>
        /\ Signature(compareASTs(node1, Shifted(node2, 2))) = Signature(deviations)
        /\ Signature(compareASTs(node1, Requoted(node2))) = Signature(deviations)

\* the same for the offsets alone
MetadataIndependenceOfOffsets ==
    MetadataCase =>
        Signature(compareASTs(node1, Shifted(node2, 2))) = Signature(deviations)

\* two statements that changed places compare as equal, and no longer do
\* when the second text writes its strings in single quotes
RequotedMoveReported ==
    /\ MetadataCase /\ node1.type = "Program"
    /\ deviations = <<>>
    /\ Len(compareASTs(node1, Requoted(node2))) = 4

(***************************************************************************)
(* The same tree with its identifiers renamed                              *)
(***************************************************************************)
\* a and b change names
NewName(name) ==
    CASE name = Str("a") -> Str("b")
      [] name = Str("b") -> Str("a")
      [] OTHER -> name

RECURSIVE Renamed(_)
Renamed(v) ==
    CASE v.k = "node" ->
            [v EXCEPT !.fields = [i \in DOMAIN v.fields |->
                                     IF v.type = "Identifier" /\ v.fields[i].key = "name"
                                     THEN F("name", NewName(v.fields[i].val))
                                     ELSE IF v.fields[i].key \in {"loc", "range"}
                                     THEN v.fields[i]
                                     ELSE F(v.fields[i].key, Renamed(v.fields[i].val))]]
      [] v.k = "array" -> [v EXCEPT !.items = [i \in DOMAIN v.items |-> Renamed(v.items[i])]]
      [] OTHER -> v

\* which nodes a list of differences removes and adds
Places(devs) ==
    [i \in DOMAIN devs |-> <<devs[i].type, devs[i].start, devs[i].end, devs[i].nodeType>>]

RenamingCase ==
    /\ Compared /\ BothNodes
    /\ ~HasPlainObject(node1) /\ ~HasPlainObject(node2)

\* C22: the second tree with its identifiers renamed gives as many removals
\* and as many additions, at the same nodes
RenamingIndependence ==
    RenamingCase =>
        SameBag(Places(compareASTs(node1, Renamed(node2))), Places(deviations))

\* an identifier and a string that changed places compare as equal, and no
\* longer do once the identifier of the second tree has another name
RenamedMoveReported ==
    /\ RenamingCase
    /\ deviations = <<>>
    /\ Len(compareASTs(node1, Renamed(node2))) = 2

(***************************************************************************)
(* What every returned list has in common                                  *)
(***************************************************************************)
Returned == Compared \/ Filtered

Cancellable(devs) ==
    \E i, j \in DOMAIN devs :
        /\ devs[i].type = "removal" /\ devs[j].type = "addition"
        /\ SameKey(devs[i], devs[j])

\* C23: a returned list has no removal and addition of the same kind and
\* description, and filterMoves returns it as it is
NoCancellablePair ==
    Returned => ~Cancellable(deviations) /\ filterMoves(deviations) = deviations

\* a parent whose list of children gave a removal and an addition of one key
\* among others: fewer differences are returned than were gathered, and some
\* of each type are
NoCancellablePairWitness ==
    /\ Compared /\ Generic(node1, node2) /\ node1.type = "Program"
    /\ LET gathered == Gathered(node1, node2, Len(LoopFields(node1)))
       IN  Cancellable(gathered) /\ Len(deviations) < Len(gathered)
    /\ \E i \in DOMAIN deviations : deviations[i].type = "removal"
    /\ \E i \in DOMAIN deviations : deviations[i].type = "addition"

\* C24: in the list compareASTs returns no addition comes before a removal
RemovalsFirst ==
    Compared =>
        \A i, j \in DOMAIN deviations :
            i < j => ~(deviations[i].type = "addition" /\ deviations[j].type = "removal")

\* the traversal met an addition before a removal, and both are returned
RemovalsFirstWitness ==
    /\ Compared /\ Generic(node1, node2)
    /\ LET gathered == Gathered(node1, node2, Len(LoopFields(node1)))
       IN  /\ Len(gathered) >= 2
           /\ gathered[1].type = "addition"
           /\ gathered[Len(gathered)].type = "removal"
           /\ SameBag(gathered, deviations)

(***************************************************************************)
(* src/diff/generate.ts, second version: generateDiffs side by side.       *)
(* What is printed is the sequence of console lines: two heading lines,    *)
(* then one row per printed line number with what formatSide puts on       *)
(* either side, and a separator line before a block that leaves a gap.     *)
(***************************************************************************)
contextLines == 2

Max(x, y) == IF x >= y THEN x ELSE y

RECURSIVE WithLines(_, _, _, _)
\* deviations.map(...): each difference with its start and end line; the
\* getLineNumber calls fill the cache on the way
WithLines(devs, text1, text2, cache) ==
    IF devs = <<>> THEN [items |-> <<>>, cache |-> cache]
    ELSE LET dev == Head(devs)
             text == IF dev.type = "removal" THEN text1 ELSE text2
             startCall == getLineNumber(cache, text, dev.start)
             endCharIndexForLine ==
                 IF dev.end > dev.start /\ dev.end > 0 THEN dev.end - 1 ELSE dev.start
             endCall == getLineNumber(startCall.cache, text, endCharIndexForLine)
             rest == WithLines(Tail(devs), text1, text2, endCall.cache)
         IN  [items |-> <<[dev |-> dev, startLine |-> startCall.line,
                           endLine |-> Max(startCall.line, endCall.line)]>>
                        \o rest.items,
              cache |-> rest.cache]

\* the comparator of the sort: a negative result puts a first
Before(a, b) ==
    IF a.startLine # b.startLine THEN a.startLine < b.startLine
    ELSE a.dev.start < b.dev.start

RECURSIVE SortByLine(_)
\* Array.prototype.sort is stable: items the comparator ranks equal keep
\* their order
SortByLine(items) ==
    IF items = <<>> THEN <<>>
    ELSE LET firsts == {i \in DOMAIN items : \A j \in DOMAIN items : ~Before(items[j], items[i])}
             first == CHOOSE i \in firsts : \A j \in firsts : i <= j
         IN  <<items[first]>>
             \o SortByLine([n \in 1..(Len(items) - 1) |->
                               IF n < first THEN items[n] ELSE items[n + 1]])

\* the null of leftNum and rightNum: line numbers count from 1
NoLineNum == 0

\* formatSide: the number with its prefix, or blanks where the text has no
\* such line, and the content of the line (cut at the column width, which
\* is at least 10: the lines of the texts below are shorter)
formatSide(lineNum, content, prefix) ==
    IF lineNum = NoLineNum THEN [num |-> NoLineNum, prefix |-> "", content |-> content]
    ELSE [num |-> lineNum, prefix |-> prefix, content |-> content]

\* the row of line lineNum in the block of one difference
Row(item, lines1, lines2, lineNum) ==
    LET isRemoval == item.dev.type = "removal"
        isLineInDeviationRange == lineNum >= item.startLine /\ lineNum <= item.endLine
        leftNum == IF lineNum - 1 >= Len(lines1) THEN NoLineNum ELSE lineNum
        rightNum == IF lineNum - 1 >= Len(lines2) THEN NoLineNum ELSE lineNum
        line1Content == IF lineNum <= Len(lines1) THEN lines1[lineNum] ELSE <<>>
        line2Content == IF lineNum <= Len(lines2) THEN lines2[lineNum] ELSE <<>>
    IN  [kind |-> "row", line |-> lineNum,
         left |-> formatSide(leftNum, line1Content,
                             IF isLineInDeviationRange /\ isRemoval THEN "-" ELSE " "),
         right |-> formatSide(rightNum, line2Content,
                              IF isLineInDeviationRange /\ ~isRemoval THEN "+" ELSE " ")]

RECURSIVE Blocks(_, _, _, _)
\* the loop over the sorted differences
Blocks(items, lines1, lines2, lastPrintedUnifiedEndLine) ==
    IF items = <<>> THEN <<>>
    ELSE LET item == Head(items)
             displayStartLine == Max(1, item.startLine - contextLines)
             displayEndLine == Min(Max(Len(lines1), Len(lines2)),
                                   item.endLine + contextLines)
             gap == displayStartLine > lastPrintedUnifiedEndLine + 1
                        /\ lastPrintedUnifiedEndLine > 0
             printStart == Max(displayStartLine, lastPrintedUnifiedEndLine + 1)
         IN  (IF gap THEN <<[kind |-> "separator"]>> ELSE <<>>)
             \o [n \in 1..(displayEndLine - printStart + 1) |->
                    Row(item, lines1, lines2, printStart + n - 1)]
             \o Blocks(Tail(items), lines1, lines2,
                       Max(lastPrintedUnifiedEndLine, displayEndLine))

\* what the call prints and the cache after it
generateDiffs(text1, text2, devs, cache) ==
    IF devs = <<>> THEN [printed |-> <<[kind |-> "none"]>>, cache |-> cache]
    ELSE LET lines1 == split(text1, "\n")
             lines2 == split(text2, "\n")
             deviationsWithLines == WithLines(devs, text1, text2, cache)
         IN  [printed |-> <<[kind |-> "title"], [kind |-> "legend"]>>
                          \o Blocks(SortByLine(deviationsWithLines.items), lines1, lines2, 0),
              cache |-> deviationsWithLines.cache]

(***************************************************************************)
(* The inputs of the rendering: texts of one-character lines, and lists of *)
(* differences each covering one line or two adjacent lines of its text.   *)
(***************************************************************************)
MaxLines == 7

MaxShown == 2

\* n lines "x" joined by line breaks
LineText(n) == [p \in 1..(2 * n - 1) |-> IF p % 2 = 1 THEN "x" ELSE "\n"]

LineCounts == {2, MaxLines - 1, MaxLines}

\* a difference over the lines from..to of a text: it starts at the first
\* character of line from and ends after the last character of line to
Span(type, from, to) ==
    Deviation(type, [type |-> "ExpressionStatement",
                     start |-> 2 * (from - 1), end |-> 2 * (to - 1) + 1], <<"x">>)

Spans(type, n) ==
    UNION {{Span(type, from, to) : to \in {from, from + 1} \cap (1..n)} : from \in 1..n}

RenderInit ==
    /\ \E n1 \in LineCounts, n2 \in LineCounts :
          /\ code1 = LineText(n1)
          /\ code2 = LineText(n2)
          /\ deviations \in SeqsUpTo(Spans("removal", n1) \cup Spans("addition", n2),
                                     MaxShown)
    /\ printed = <<>>
    /\ pc = "render"
    /\ node1 = Null /\ node2 = Null
    /\ accumulatedDeviations = <<>>
    /\ NoMain
    /\ NoLines

\* generateDiffs(code1, code2, deviations)
GenerateDiffs ==
    /\ pc = "render"
    /\ LET call == generateDiffs(code1, code2, deviations, lineStartCache)
       IN  /\ printed' = call.printed
           /\ lineStartCache' = call.cache
    /\ pc' = "rendered"
    /\ UNCHANGED <<node1, node2, deviations, accumulatedDeviations, mainVars,
                   code, charIndex, line, code1, code2>>

RenderNext == GenerateDiffs

RenderSpec == RenderInit /\ [][RenderNext]_vars

Rendered == pc = "rendered"

\* the text a difference points into
TextOf(d) == IF d.type = "removal" THEN code1 ELSE code2

\* the lines a difference covers, counted by the line breaks before its
\* first and before its last character
LinesOf(d) ==
    (1 + LineBreaksBefore(TextOf(d), d.start))
        .. (1 + LineBreaksBefore(TextOf(d), d.end - 1))

\* the printed rows of line number l
RowsOf(l) == {r \in DOMAIN printed : printed[r].kind = "row" /\ printed[r].line = l}

\* a printed row carries the marker of difference d on d's own side
Marked(r, d) ==
    IF d.type = "removal" THEN printed[r].left.prefix = "-"
    ELSE printed[r].right.prefix = "+"

\* every line of difference d is printed exactly once, with d's marker
Shown(d) ==
    \A l \in LinesOf(d) : Cardinality(RowsOf(l)) = 1 /\ \A r \in RowsOf(l) : Marked(r, d)

\* C25: after the side-by-side generateDiffs, each line from a difference's
\* start line to its end line is printed exactly once and carries that
\* difference's marker on its own side, and no line number is printed twice
EveryDifferenceShown ==
    Rendered =>
        /\ \A i \in DOMAIN deviations : Shown(deviations[i])
        /\ \A l \in 1..MaxLines : Cardinality(RowsOf(l)) <= 1

\* the part of C25 that holds: no line number is printed twice, and every
\* line of every difference is printed
EveryLinePrintedOnce ==
    Rendered =>
        /\ \A l \in 1..MaxLines : Cardinality(RowsOf(l)) <= 1
        /\ \A i \in DOMAIN deviations :
              \A l \in LinesOf(deviations[i]) : Cardinality(RowsOf(l)) = 1

\* the part of C25 that holds for a single difference
SingleDifferenceShown ==
    Rendered /\ Len(deviations) = 1 => Shown(deviations[1])

\* a removal and an addition that start on the same line: the line is printed
\* once, in the block of the one that sorts first, and the other has no marker
SameLinePairHidden ==
    /\ Rendered
    /\ Len(deviations) = 2
    /\ deviations[1].type = "removal" /\ deviations[2].type = "addition"
    /\ deviations[1].start = deviations[2].start
    /\ Shown(deviations[1])
    /\ ~Shown(deviations[2])

\* a difference whose lines lie within the context lines of an earlier one
\* of the same side: its lines were printed as context and have no marker
ContextDifferenceHidden ==
    /\ Rendered
    /\ Len(deviations) = 2
    /\ deviations[1].type = "removal" /\ deviations[2].type = "removal"
    /\ deviations[2].start = deviations[1].end + 1
    /\ Shown(deviations[1])
    /\ \A l \in LinesOf(deviations[2]) : \A r \in RowsOf(l) : ~Marked(r, deviations[2])

\* two differences far enough apart are both shown, with a separator line
\* between their blocks
SeparatedDifferencesShown ==
    /\ Rendered
    /\ Len(deviations) = 2
    /\ \E r \in DOMAIN printed : printed[r].kind = "separator"
    /\ Shown(deviations[1]) /\ Shown(deviations[2])

====
